---- MODULE Spec2Model ----
(***************************************************************************)
(* Model of jwql.edb.engineering_database: the EdbMnemonic container and   *)
(* its combine / interpolate operations.                                   *)
(*                                                                         *)
(* Times are integers counted in ticks of the clock: the microsecond of    *)
(* timedelta(microseconds=1) is one tick, and a day is Day ticks, a day    *)
(* kept short so that spans of whole days occur.  Python's None is the     *)
(* empty sequence and a present value x is <<x>>, so that an optional      *)
(* field always holds a sequence.  Telemetry values are tagged triples:    *)
(* <<"n", p, q>> is the number p/q (q >= 1), <<"s", c, 0>> is the string   *)
(* with code c, <<"s", p, q>> (q >= 1) is the text numpy makes of the      *)
(* number p/q when it casts it to a string, <<"nan", 0, 1>> is np.nan and  *)
(* <<"u", 0, 1>> is a number whose value numpy leaves unspecified.         *)
(***************************************************************************)
EXTENDS Integers, Sequences, FiniteSets, TLC

VARIABLES heap, infos, last, pre, calls_left, query

vars == <<heap, infos, last, pre, calls_left, query>>

(* ---------------------------- bounds ---------------------------------- *)

MaxTime == 3

MaxLen == 2

MaxOps == 2

(* ---------------------------- basics ---------------------------------- *)

None == <<>>

Some(x) == <<x>>

NoneBlock == -1

delta_t == 1

Times == 1..MaxTime

Num(p) == <<"n", p, 1>>

Str(c) == <<"s", c, 0>>

Unspecified == <<"u", 0, 1>>

NumVals == {Num(1), Num(2)}

StrVals == {Str(1), Str(2)}

(* np.nan *)
NaN == <<"nan", 0, 1>>

IsNumber(v) == v[1] \in {"n", "u", "nan"}

IsStrColumn(vals) == Len(vals) > 0 /\ vals[1][1] = "s"

Abs(x) == IF x < 0 THEN -x ELSE x

RECURSIVE GCD(_, _)
GCD(a, b) == IF b = 0 THEN a ELSE GCD(b, a % b)

Rat(p, q) ==
    LET g == GCD(Abs(p), q)
    IN  <<"n", p \div g, q \div g>>

RatMul(x, y) ==
    IF x[1] = "nan" \/ y[1] = "nan" THEN NaN
    ELSE IF x[1] = "u" \/ y[1] = "u" THEN Unspecified
    ELSE Rat(x[2] * y[2], x[3] * y[3])

SeqMin(s) == CHOOSE x \in {s[k] : k \in 1..Len(s)} : \A k \in 1..Len(s) : x <= s[k]

SeqMax(s) == CHOOSE x \in {s[k] : k \in 1..Len(s)} : \A k \in 1..Len(s) : x >= s[k]

SetMax(S) == CHOOSE x \in S : \A y \in S : y <= x

SetMin(S) == CHOOSE x \in S : \A y \in S : x <= y

IsSorted(s) == \A k \in 1..(Len(s) - 1) : s[k] <= s[k + 1]

StrictlySorted(s) == \A k \in 1..(Len(s) - 1) : s[k] < s[k + 1]

NoDup(s) == \A j, k \in 1..Len(s) : j # k => s[j] # s[k]

RECURSIVE SeqsUpTo(_, _)
SeqsUpTo(S, n) ==
    IF n = 0 THEN {<<>>}
    ELSE LET shorter == SeqsUpTo(S, n - 1)
         IN  shorter \cup {Append(s, x) : s \in {t \in shorter : Len(t) = n - 1}, x \in S}

RECURSIVE SelectIdx(_, _, _)
SelectIdx(s, idx, k) ==
    IF k > Len(idx) THEN <<>>
    ELSE <<s[idx[k]]>> \o SelectIdx(s, idx, k + 1)

Take(s, idx) == SelectIdx(s, idx, 1)

(* timedelta / 2. rounds the quotient to the nearest microsecond, ties to even *)
HalfEven(d) ==
    LET q == d \div 2
    IN  IF d % 2 = 0 THEN q ELSE IF q % 2 = 0 THEN q ELSE q + 1

calc_median_time(time_arr) ==
    time_arr[1] + HalfEven(time_arr[Len(time_arr)] - time_arr[1])

(* int(x / y) for a non-zero y: truncation towards zero *)
TruncDiv(x, y) ==
    LET q == Abs(x) \div Abs(y)
    IN  IF (x < 0) = (y < 0) THEN q ELSE -q

(* ---------------------------- metadata -------------------------------- *)

MetaAbsent == [TlmMnemonics |-> <<>>]

MetaOf(ap) == [TlmMnemonics |-> <<[AllPoints |-> ap]>>]

HasMeta(meta) == Len(meta.TlmMnemonics) > 0

AllPoints(meta) == meta.TlmMnemonics[1].AllPoints

(* ---------------------------- statistics ------------------------------ *)

(* astropy's sigma_clipped_stats is an external primitive: a statistic is  *)
(* the term <<name, how, sample>> naming the sample it was computed from,  *)
(* a sequence of <<value, repeat count>> pairs.                            *)
Stat(name, how, sample) == <<name, how, sample>>

RECURSIVE Weighted(_, _, _)
Weighted(values, reps, k) ==
    IF k > Len(reps) THEN <<>>
    ELSE <<<<values[k], reps[k]>>>> \o Weighted(values, reps, k + 1)

Unweighted(values) == Weighted(values, [k \in 1..Len(values) |-> 1], 1)

sigma_clipped_stats(sample) ==
    [mean |-> Stat("mean", "clipped", sample),
     median |-> Stat("median", "clipped", sample),
     stdev |-> Stat("stdev", "clipped", sample)]

delta_time(times) == [k \in 1..(Len(times) - 1) |-> times[k + 1] - times[k]]

(* delta_time / np.min(delta_time) divides by a zero timedelta *)
change_only_stats_raises(times) ==
    Len(times) >= 2 /\ SeqMin(delta_time(times)) = 0

(* variant: every value counts once, whatever the time it was held *)
change_only_stats_unweighted(times, values) == sigma_clipped_stats(Unweighted(values))

change_only_stats(times, values) ==
    IF Len(times) = 0
    THEN [mean |-> Stat("mean", "none", <<>>),
          median |-> Stat("median", "none", <<>>),
          stdev |-> Stat("stdev", "none", <<>>)]
    ELSE IF Len(times) = 1
    THEN [mean |-> Stat("mean", "values", Unweighted(values)),
          median |-> Stat("median", "values", Unweighted(values)),
          stdev |-> Stat("stdev", "zero", <<>>)]
    ELSE LET dt == delta_time(times)
             time_fractions == [k \in 1..Len(dt) |-> TruncDiv(dt[k] * 100, SeqMin(dt))]
         IN  sigma_clipped_stats(Weighted(values, time_fractions, 1))

full_stats_raises(s) ==
    AllPoints(s.meta) = 0 /\ change_only_stats_raises(s.data.dates)

full_stats(s) ==
    LET st == IF AllPoints(s.meta) # 0
              THEN sigma_clipped_stats(Unweighted(s.data.euvalues))
              ELSE change_only_stats(s.data.dates, s.data.euvalues)
    IN  [s EXCEPT !.mean = Some(<<st.mean>>),
                  !.median = Some(<<st.median>>),
                  !.stdev = Some(<<st.stdev>>),
                  !.median_times = Some(<<calc_median_time(s.data.dates)>>)]

(* ---------------------------- construction ---------------------------- *)

Table(dates, euvalues) == [dates |-> dates, euvalues |-> euvalues]

(* variant: the values are not tested for being numbers *)
RunsFullStats_anyvalue(data, meta) == Len(data.dates) # 0 /\ HasMeta(meta)

RunsFullStats(data, meta) ==
    Len(data.dates) # 0 /\ IsNumber(data.euvalues[1]) /\ HasMeta(meta)

(* full_stats raising ends the constructor: no instance results *)
InitRaises(data, meta) ==
    RunsFullStats(data, meta) /\ full_stats_raises([meta |-> meta, data |-> data])

EdbMnemonic(mnemonic_identifier, start_time, end_time, data, meta, info, blocks) ==
    LET base == [mnemonic_identifier |-> mnemonic_identifier,
                 requested_start_time |-> start_time,
                 requested_end_time |-> end_time,
                 data |-> data,
                 mean |-> None, median |-> None, stdev |-> None, median_times |-> None,
                 meta |-> meta,
                 info |-> info,
                 blocks |-> blocks,
                 data_start_time |-> IF Len(data.dates) = 0 THEN None
                                     ELSE Some(SeqMin(data.dates)),
                 data_end_time |-> IF Len(data.dates) = 0 THEN None
                                   ELSE Some(SeqMax(data.dates))]
    IN  IF RunsFullStats(data, meta) /\ ~InitRaises(data, meta) THEN full_stats(base) ELSE base

(* ---------------------------- numpy helpers --------------------------- *)

AsStr(v) == IF v[1] = "s" THEN v ELSE <<"s", v[2], v[3]>>

(* np.append of two value columns: a numeric column joined to a string one is cast to strings *)
np_append_values(x, y) ==
    IF IsStrColumn(x) = IsStrColumn(y) \/ Len(x) = 0 \/ Len(y) = 0 THEN x \o y
    ELSE [k \in 1..(Len(x) + Len(y)) |-> AsStr((x \o y)[k])]

(* variant: every index, repeated values included *)
FirstOccurrence_all(d) == 1..Len(d)

FirstOccurrence(d) == {i \in 1..Len(d) : \A j \in 1..(i - 1) : d[j] # d[i]}

RECURSIVE SortIdx(_, _)
SortIdx(d, S) ==
    IF S = {} THEN <<>>
    ELSE LET m == CHOOSE i \in S : \A k \in S : d[i] <= d[k]
         IN  <<m>> \o SortIdx(d, S \ {m})

LastOccurrence(d) == {i \in 1..Len(d) : \A j \in (i + 1)..Len(d) : d[j] # d[i]}

(* variant: the index of the last occurrence of each value *)
np_unique_index_last(d) == SortIdx(d, LastOccurrence(d))

(* np.unique(d, return_index=True): the index of the first occurrence of each value, by value *)
np_unique_index(d) == SortIdx(d, FirstOccurrence(d))

(* np.intersect1d(a, b, return_indices=True) *)
CommonFirst(a, b) == {i \in FirstOccurrence(a) : \E j \in 1..Len(b) : b[j] = a[i]}

(* variant: the leading samples of a, as many as there are common values *)
intersect_self_idx_head(a, b) == [k \in 1..Cardinality(CommonFirst(a, b)) |-> k]

intersect_self_idx(a, b) == SortIdx(a, CommonFirst(a, b))

intersect_mnem_idx(a, b) == SortIdx(b, CommonFirst(b, a))

Lerp(x, x0, x1, y0, y1) ==
    IF y0[1] = "nan" \/ y1[1] = "nan" THEN NaN
    ELSE IF y0[1] = "u" \/ y1[1] = "u" THEN Unspecified
    ELSE Rat(y0[2] * y1[3] * (x1 - x0) + (y1[2] * y0[3] - y0[2] * y1[3]) * (x - x0),
             y0[3] * y1[3] * (x1 - x0))

(* np.interp(x, xp, fp): fp[1] left of xp, fp[n] right of it; numpy leaves the *)
(* result unspecified when xp is not increasing                                *)
np_interp(x, xp, fp) ==
    LET n == Len(xp)
        j == SetMax({k \in 1..n : xp[k] <= x})
    IN  IF ~IsSorted(xp) THEN Unspecified
        ELSE IF x < xp[1] THEN fp[1]
        ELSE IF j = n THEN fp[n]
        ELSE IF xp[j] = x THEN fp[j]
        ELSE Lerp(x, xp[j], xp[j + 1], fp[j], fp[j + 1])

create_time_offset(dt_obj, epoch) == dt_obj - epoch

add_time_offset(offset, dt_obj) == dt_obj + offset

RECURSIVE Filter(_, _, _)
Filter(s, keep, k) ==
    IF k > Len(s) THEN <<>>
    ELSE (IF keep[k] THEN <<s[k]>> ELSE <<>>) \o Filter(s, keep, k + 1)

(* ---------------------------- __add__ --------------------------------- *)

(* the f-string of the error message reads self.info["tlmMnemonic"] before *)
(* the ValueError is built                                                 *)
add_error(self, mnem, inf) ==
    IF self.mnemonic_identifier = mnem.mnemonic_identifier THEN ""
    ELSE IF self.info = None THEN "TypeError"
    ELSE IF inf[self.info[1]].tlmMnemonic = None THEN "KeyError"
    ELSE "ValueError"

self_is_early(self, mnem) == SeqMin(self.data.dates) < SeqMin(mnem.data.dates)

shift_late_blocks(late_blocks, overlap_len) ==
    [k \in 1..Len(late_blocks) |-> late_blocks[k] - overlap_len]

add_blocks(early_blocks, late_blocks, overlap_len) ==
    IF late_blocks[1] # NoneBlock
    THEN IF early_blocks[1] = NoneBlock
         THEN shift_late_blocks(late_blocks, overlap_len)
         ELSE early_blocks \o shift_late_blocks(late_blocks, overlap_len)
    ELSE IF early_blocks[1] # NoneBlock THEN early_blocks ELSE <<NoneBlock>>

(* the new instance of __add__ for two operands that both hold samples *)
add_new(self, mnem) ==
    LET early == IF self_is_early(self, mnem) THEN self ELSE mnem
        late == IF self_is_early(self, mnem) THEN mnem ELSE self
        all_dates == early.data.dates \o late.data.dates
        unq_idx == np_unique_index(all_dates)
        unique_dates == Take(all_dates, unq_idx)
        all_data == np_append_values(early.data.euvalues, late.data.euvalues)
        unique_data == Take(all_data, unq_idx)
        overlap_len == Len(unique_dates) - Len(all_dates)
        new_blocks == add_blocks(early.blocks, late.blocks, overlap_len)
    IN  EdbMnemonic(self.mnemonic_identifier, self.data_start_time, self.data_end_time,
                    Table(unique_dates, unique_data), self.meta, self.info, new_blocks)

(* ---------------------------- interpolate ----------------------------- *)

Latest(dates, time) == {i \in 1..Len(dates) : dates[i] <= time}

change_only_interp(self, times) ==
    LET dates == self.data.dates
        keep == [k \in 1..Len(times) |-> Latest(dates, times[k]) # {}]
        vals == [k \in 1..Len(times) |->
                    IF keep[k] THEN self.data.euvalues[SetMax(Latest(dates, times[k]))]
                    ELSE Unspecified]
    IN  Table(Filter(times, keep, 1), Filter(vals, keep, 1))

(* variant: every requested time is kept *)
good_times_all(interp_times, mnem_times) == [k \in 1..Len(interp_times) |-> TRUE]

(* Do not extrapolate: the requested times outside the range of the data are ignored *)
good_times(interp_times, mnem_times) ==
    [k \in 1..Len(interp_times) |->
        interp_times[k] >= mnem_times[1] /\ interp_times[k] <= mnem_times[Len(mnem_times)]]

all_points_interp(self, times) ==
    LET dates == self.data.dates
        epoch == dates[1]
        interp_times == [k \in 1..Len(times) |-> create_time_offset(times[k], epoch)]
        mnem_times == [k \in 1..Len(dates) |-> create_time_offset(dates[k], epoch)]
        kept == Filter(interp_times, good_times(interp_times, mnem_times), 1)
    IN  Table([k \in 1..Len(kept) |-> add_time_offset(kept[k], epoch)],
              [k \in 1..Len(kept) |-> np_interp(kept[k], mnem_times, self.data.euvalues)])

block_starts(blocks) == SubSeq(blocks, 1, Len(blocks) - 1)

RECURSIVE interp_block_starts(_, _, _, _)
interp_block_starts(starts, old_dates, new_dates, k) ==
    IF k > Len(starts) THEN <<>>
    ELSE LET good == {i \in 1..Len(new_dates) : new_dates[i] >= old_dates[starts[k] + 1]}
         IN  (IF good # {} THEN <<SetMin(good) - 1>> ELSE <<>>)
             \o interp_block_starts(starts, old_dates, new_dates, k + 1)

(* variant: the blocks are left as they were *)
interp_blocks_unadjusted(self, new_dates) == self.blocks

interp_blocks(self, new_dates) ==
    Append(interp_block_starts(block_starts(self.blocks), self.data.dates, new_dates, 1),
           Len(new_dates))

interpolate_error(self, times) ==
    IF ~HasMeta(self.meta) THEN "KeyError"
    ELSE IF AllPoints(self.meta) = 0
    THEN IF Len(change_only_interp(self, times).dates) = 0 THEN "KeyError"
         ELSE IF \E k \in 1..(Len(self.blocks) - 1) : self.blocks[k] >= Len(self.data.dates)
         THEN "IndexError" ELSE ""
    ELSE IF Len(self.data.dates) < 2 THEN "TypeError"
    ELSE IF IsStrColumn(self.data.euvalues) THEN "TypeError"
    ELSE IF \E k \in 1..(Len(self.blocks) - 1) : self.blocks[k] >= Len(self.data.dates)
    THEN "IndexError" ELSE ""

(* variant: the statistics are dropped with the old samples *)
interpolate_dropstats(self, times) ==
    LET new_tab == IF AllPoints(self.meta) = 0 THEN change_only_interp(self, times)
                   ELSE all_points_interp(self, times)
    IN  [self EXCEPT !.blocks = interp_blocks(self, new_tab.dates), !.data = new_tab,
                     !.mean = None, !.median = None, !.stdev = None, !.median_times = None]

(* the instance after a call of interpolate that does not raise *)
interpolate(self, times) ==
    LET new_tab == IF AllPoints(self.meta) = 0 THEN change_only_interp(self, times)
                   ELSE all_points_interp(self, times)
    IN  [self EXCEPT !.blocks = interp_blocks(self, new_tab.dates), !.data = new_tab]

(* ---------------------------- change_only_add_points ------------------ *)

change_only_add_points(self) ==
    LET dates == self.data.dates
        vals == self.data.euvalues
        n == Len(dates)
    IN  [self EXCEPT !.data =
            Table(<<dates[1]>> \o [k \in 1..(n - 1) |-> dates[k] - delta_t],
                  <<vals[1]>> \o [k \in 1..(n - 1) |-> vals[IF k = 1 THEN n ELSE k - 1]])]

(* ---------------------------- __mul__ --------------------------------- *)

(* astropy refuses a column of another length in a table of two columns *)
truncate_error(mnem) == IF Len(mnem.data.dates) = 1 THEN "ValueError" ELSE ""

choose_blocks_error(self, mnem, self_idx, mnem_idx) ==
    IF Len(self_idx) = Len(self.data.dates) THEN ""
    ELSE IF Len(mnem_idx) = Len(mnem.data.dates) THEN ""
    ELSE "ValueError"

(* variant: the blocks always come from self *)
use_blocks_self(self, mnem, self_idx, mnem_idx) == self.blocks

use_blocks(self, mnem, self_idx, mnem_idx) ==
    IF Len(self_idx) = Len(self.data.dates) THEN self.blocks ELSE mnem.blocks

product_error(self, mnem) ==
    IF IsStrColumn(self.data.euvalues) \/ IsStrColumn(mnem.data.euvalues)
    THEN "TypeError" ELSE ""

(* the new instance of __mul__, from self and the interpolated mnem *)
mul_new(self, mnem) ==
    LET self_idx == intersect_self_idx(self.data.dates, mnem.data.dates)
        mnem_idx == intersect_mnem_idx(self.data.dates, mnem.data.dates)
        common_dates == Take(self.data.dates, self_idx)
        self_vals == Take(self.data.euvalues, self_idx)
        mnem_vals == Take(mnem.data.euvalues, mnem_idx)
        product == [k \in 1..Len(common_dates) |-> RatMul(self_vals[k], mnem_vals[k])]
    IN  EdbMnemonic(self.mnemonic_identifier, self.requested_start_time,
                    self.requested_end_time, Table(common_dates, product),
                    self.meta, self.info, use_blocks(self, mnem, self_idx, mnem_idx))

(* the descriptor of self after the try block that composes the units: a  *)
(* missing key ends the block at the first statement that reads it        *)
mul_info(a, b) ==
    IF a.unit = None \/ b.unit = None THEN a
    ELSE LET a1 == [a EXCEPT !.unit = Some(a.unit[1] \o b.unit[1])]
         IN  IF a.tlmMnemonic = None \/ b.tlmMnemonic = None THEN a1
             ELSE LET a2 == [a1 EXCEPT !.tlmMnemonic =
                                Some(a.tlmMnemonic[1] \o <<"*">> \o b.tlmMnemonic[1])]
                  IN  IF a.description = None \/ b.description = None THEN a2
                      ELSE [a2 EXCEPT !.description =
                                Some(<<"(">> \o a.description[1] \o <<")", "*", "(">>
                                     \o b.description[1] \o <<")">>)]

(* ---------------------------- windowed statistics --------------------- *)

(* the length of a day in ticks of the model's clock *)
Day == 2

Durations == {1, 2}

(* s[lo:hi] for 0 <= lo: the elements at the 0-based indices lo .. hi - 1 that exist *)
Slice(s, lo, hi) ==
    LET h == IF hi > Len(s) THEN Len(s) ELSE hi
    IN  IF lo >= h THEN <<>> ELSE SubSeq(s, lo + 1, h)

(* the samples with lo <= date < hi *)
InWindow(dates, lo, hi) == [k \in 1..Len(dates) |-> dates[k] >= lo /\ dates[k] < hi]

(* the first error of a sequence of steps *)
RECURSIVE FirstError(_, _)
FirstError(errs, k) ==
    IF k > Len(errs) THEN ""
    ELSE IF errs[k] # "" THEN errs[k]
    ELSE FirstError(errs, k + 1)

(* the statistics of one window: sigma clipping rejects text, and the      *)
(* change-only weights divide by the smallest time step                    *)
window_error(meta, times, values) ==
    IF ~HasMeta(meta) THEN "KeyError"
    ELSE IF AllPoints(meta) # 0
    THEN IF IsStrColumn(values) THEN "TypeError" ELSE ""
    ELSE IF Len(times) < 2 THEN ""
    ELSE IF SeqMin(delta_time(times)) = 0 THEN "ZeroDivisionError"
    ELSE IF IsStrColumn(values) THEN "TypeError" ELSE ""

window_stats(meta, times, values) ==
    IF AllPoints(meta) # 0
    THEN sigma_clipped_stats(Unweighted(values))
    ELSE change_only_stats(times, values)

median_time_error(times) == IF Len(times) = 0 THEN "IndexError" ELSE ""

(* full_stats called on an instance *)
full_stats_error(s) ==
    FirstError(<<window_error(s.meta, s.data.dates, s.data.euvalues),
                 median_time_error(s.data.dates)>>, 1)

(* variant: every window runs to the last sample *)
block_windows_to_end(s) ==
    [k \in 1..(Len(s.blocks) - 1) |->
        [index |-> s.blocks[k],
         dates |-> Slice(s.data.dates, s.blocks[k], Len(s.data.dates)),
         euvalues |-> Slice(s.data.euvalues, s.blocks[k], Len(s.data.dates))]]

(* block_stats: one window per entry of blocks[0:-1] *)
block_windows(s) ==
    [k \in 1..(Len(s.blocks) - 1) |->
        [index |-> s.blocks[k],
         dates |-> Slice(s.data.dates, s.blocks[k], s.blocks[k + 1]),
         euvalues |-> Slice(s.data.euvalues, s.blocks[k], s.blocks[k + 1])]]

block_window_error(s, w) ==
    IF IsStrColumn(s.data.euvalues)
    THEN IF w.index >= Len(s.data.euvalues) THEN "IndexError"
         ELSE median_time_error(w.dates)
    ELSE FirstError(<<window_error(s.meta, w.dates, w.euvalues),
                      median_time_error(w.dates)>>, 1)

block_stats_error(s) ==
    IF Len(s.data.dates) = 0 THEN "IndexError"
    ELSE LET ws == block_windows(s)
         IN  FirstError([k \in 1..Len(ws) |-> block_window_error(s, ws[k])], 1)

(* variant: text is sigma clipped like numbers *)
block_window_stats_clipped(s, w) == sigma_clipped_stats(Unweighted(w.euvalues))

block_window_stats(s, w) ==
    IF IsStrColumn(s.data.euvalues)
    THEN [mean |-> Stat("mean", "value", Unweighted(<<s.data.euvalues[w.index + 1]>>)),
          median |-> Stat("median", "value", Unweighted(<<s.data.euvalues[w.index + 1]>>)),
          stdev |-> Stat("stdev", "zero", <<>>)]
    ELSE window_stats(s.meta, w.dates, w.euvalues)

block_stats(s) ==
    LET ws == block_windows(s)
    IN  [s EXCEPT !.mean = Some([k \in 1..Len(ws) |-> block_window_stats(s, ws[k]).mean]),
                  !.median = Some([k \in 1..Len(ws) |-> block_window_stats(s, ws[k]).median]),
                  !.stdev = Some([k \in 1..Len(ws) |-> block_window_stats(s, ws[k]).stdev]),
                  !.median_times = Some([k \in 1..Len(ws) |-> calc_median_time(ws[k].dates)])]

(* daily_stats: limits one day apart from the first date, closed by the last date *)
daily_limits(dates) ==
    LET min_date == SeqMin(dates)
        num_days == (SeqMax(dates) - min_date) \div Day
    IN  [x \in 1..(num_days + 1) |-> min_date + (x - 1) * Day] \o <<SeqMax(dates)>>

time_windows(s, lows, highs) ==
    [k \in 1..Len(lows) |->
        [lo |-> lows[k],
         hi |-> highs[k],
         dates |-> Filter(s.data.dates, InWindow(s.data.dates, lows[k], highs[k]), 1),
         euvalues |-> Filter(s.data.euvalues, InWindow(s.data.dates, lows[k], highs[k]), 1)]]

daily_windows(s) ==
    LET limits == daily_limits(s.data.dates)
    IN  time_windows(s, SubSeq(limits, 1, Len(limits) - 1), SubSeq(limits, 2, Len(limits)))

daily_stats_error(s) ==
    IF Len(s.data.dates) = 0 THEN "ValueError"
    ELSE LET ws == daily_windows(s)
         IN  FirstError([k \in 1..Len(ws) |->
                            window_error(s.meta, ws[k].dates, ws[k].euvalues)], 1)

daily_stats(s) ==
    LET ws == daily_windows(s)
        st == [k \in 1..Len(ws) |-> window_stats(s.meta, ws[k].dates, ws[k].euvalues)]
    IN  [s EXCEPT !.mean = Some([k \in 1..Len(ws) |-> st[k].mean]),
                  !.median = Some([k \in 1..Len(ws) |-> st[k].median]),
                  !.stdev = Some([k \in 1..Len(ws) |-> st[k].stdev]),
                  !.median_times = Some([k \in 1..Len(ws) |->
                                            ws[k].lo + HalfEven(ws[k].hi - ws[k].lo)])]

(* timed_stats: np.ceil(span / duration) bins from the first date *)
CeilDiv(x, y) == (x + y - 1) \div y

timed_windows(s, duration) ==
    LET num_bins == CeilDiv(SeqMax(s.data.dates) - SeqMin(s.data.dates), duration)
        first == s.data.dates[1]
    IN  time_windows(s, [i \in 1..num_bins |-> first + (i - 1) * duration],
                        [i \in 1..num_bins |-> first + i * duration])

(* the step of timed_stats that raises in bin k, "" when the bin completes *)
timed_window_error(s, w) ==
    FirstError(<<window_error(s.meta, w.dates, w.euvalues), median_time_error(w.dates)>>, 1)

timed_stats_error(s, duration) ==
    IF Len(s.data.dates) = 0 THEN "ValueError"
    ELSE LET ws == timed_windows(s, duration)
         IN  FirstError([k \in 1..Len(ws) |-> timed_window_error(s, ws[k])], 1)

(* the number of bins timed_stats completes before it raises or ends *)
RECURSIVE timed_done(_, _, _)
timed_done(s, ws, k) ==
    IF k > Len(ws) \/ timed_window_error(s, ws[k]) # "" THEN k - 1
    ELSE timed_done(s, ws, k + 1)

(* the four lists are emptied before the loop and appended to bin by bin:  *)
(* a bin whose median time raises has already appended its statistics      *)
timed_stats(s, duration) ==
    IF Len(s.data.dates) = 0 THEN s
    ELSE LET ws == timed_windows(s, duration)
             done == timed_done(s, ws, 1)
             more == IF done < Len(ws)
                        /\ window_error(s.meta, ws[done + 1].dates, ws[done + 1].euvalues) = ""
                     THEN done + 1 ELSE done
             st == [k \in 1..more |-> window_stats(s.meta, ws[k].dates, ws[k].euvalues)]
         IN  [s EXCEPT !.mean = Some([k \in 1..more |-> st[k].mean]),
                       !.median = Some([k \in 1..more |-> st[k].median]),
                       !.stdev = Some([k \in 1..more |-> st[k].stdev]),
                       !.median_times = Some([k \in 1..done |-> calc_median_time(ws[k].dates)])]

(* ---------------------------- get_mnemonic ---------------------------- *)

(* the 1-based indices np.where(...)[0] gives, in increasing order *)
where_before(date_list, time) == {k \in 1..Len(date_list) : date_list[k] < time}

(* variant: the value in effect at time, a sample at time itself included *)
value_before_at(date_list, value_list, time) ==
    IF {k \in 1..Len(date_list) : date_list[k] <= time} = {} THEN NaN
    ELSE value_list[SetMax({k \in 1..Len(date_list) : date_list[k] <= time})]

value_before(date_list, value_list, time) ==
    IF where_before(date_list, time) = {} THEN NaN
    ELSE value_list[SetMax(where_before(date_list, time))]

change_only_bounding_points(date_list, value_list, starttime, endtime) ==
    LET valid == [k \in 1..Len(date_list) |->
                     date_list[k] <= endtime /\ date_list[k] >= starttime]
        value0 == value_before(date_list, value_list, starttime)
        value_end == value_before(date_list, value_list, endtime)
    IN  [dates |-> <<starttime>> \o Filter(date_list, valid, 1) \o <<endtime>>,
         euvalues |-> <<value0>> \o Filter(value_list, valid, 1) \o <<value_end>>]

(* ---------------------------- state ----------------------------------- *)

(* heap[1] and heap[2] are the caller's instances, heap[3] is the instance *)
(* the last combination created; infos holds the descriptor dictionaries,  *)
(* which instances share by reference.  last records the last call, pre    *)
(* the heap and the dictionaries before it, calls_left the number of calls *)
(* the behaviour may still make.  query holds the local variables of a     *)
(* running get_mnemonic and the step it has reached.                       *)
Slots == 1..3

NewSlot == 3

NoQuery == [pc |-> "idle"]

Live(k) == heap[k] # None

Obj(k) == heap[k][1]

Call(op, i, j, times, err, ret) ==
    [op |-> op, self |-> i, mnem |-> j, times |-> times, err |-> err, ret |-> ret]

Outcome(err, h, inf, ret) == [err |-> err, heap |-> h, infos |-> inf, ret |-> ret]

(* variant: an empty operand is returned instead of the other one *)
AddOutcome_swap(h, inf, i, j) ==
    LET self == h[i][1]
        mnem == h[j][1]
        err == add_error(self, mnem, inf)
    IN  IF err # "" THEN Outcome(err, h, inf, 0)
        ELSE IF Len(self.data.dates) = 0 THEN Outcome("", h, inf, i)
        ELSE IF Len(mnem.data.dates) = 0 THEN Outcome("", h, inf, j)
        ELSE Outcome("", [h EXCEPT ![NewSlot] = Some(add_new(self, mnem))], inf, NewSlot)

(* variant: the combined data are stored in self, which is returned *)
AddOutcome_inplace(h, inf, i, j) ==
    LET self == h[i][1]
        mnem == h[j][1]
        err == add_error(self, mnem, inf)
    IN  IF err # "" THEN Outcome(err, h, inf, 0)
        ELSE IF Len(self.data.dates) = 0 THEN Outcome("", h, inf, j)
        ELSE IF Len(mnem.data.dates) = 0 THEN Outcome("", h, inf, i)
        ELSE Outcome("", [h EXCEPT ![i] = Some(add_new(self, mnem))], inf, i)

AddOutcome(h, inf, i, j) ==
    LET self == h[i][1]
        mnem == h[j][1]
        err == add_error(self, mnem, inf)
    IN  IF err # "" THEN Outcome(err, h, inf, 0)
        ELSE IF Len(self.data.dates) = 0 THEN Outcome("", h, inf, j)
        ELSE IF Len(mnem.data.dates) = 0 THEN Outcome("", h, inf, i)
        ELSE IF InitRaises(add_new(self, mnem).data, self.meta)
        THEN Outcome("ZeroDivisionError", h, inf, 0)
        ELSE Outcome("", [h EXCEPT ![NewSlot] = Some(add_new(self, mnem))], inf, NewSlot)

(* variant: the samples are left as they were *)
InterpolateOutcome_noop(h, inf, i, times) == Outcome("", h, inf, 0)

InterpolateOutcome(h, inf, i, times) ==
    LET err == interpolate_error(h[i][1], times)
    IN  IF err # "" THEN Outcome(err, h, inf, 0)
        ELSE Outcome("", [h EXCEPT ![i] = Some(interpolate(h[i][1], times))], inf, 0)

ChangeOnlyAddPointsOutcome(h, inf, i) ==
    IF Len(h[i][1].data.dates) = 0 THEN Outcome("IndexError", h, inf, 0)
    ELSE Outcome("", [h EXCEPT ![i] = Some(change_only_add_points(h[i][1]))], inf, 0)

FullStatsOutcome(h, inf, i) ==
    IF full_stats_error(h[i][1]) # "" THEN Outcome(full_stats_error(h[i][1]), h, inf, 0)
    ELSE Outcome("", [h EXCEPT ![i] = Some(full_stats(h[i][1]))], inf, 0)

BlockStatsOutcome(h, inf, i) ==
    IF block_stats_error(h[i][1]) # "" THEN Outcome(block_stats_error(h[i][1]), h, inf, 0)
    ELSE Outcome("", [h EXCEPT ![i] = Some(block_stats(h[i][1]))], inf, 0)

DailyStatsOutcome(h, inf, i) ==
    IF daily_stats_error(h[i][1]) # "" THEN Outcome(daily_stats_error(h[i][1]), h, inf, 0)
    ELSE Outcome("", [h EXCEPT ![i] = Some(daily_stats(h[i][1]))], inf, 0)

TimedStatsOutcome(h, inf, i, duration) ==
    Outcome(timed_stats_error(h[i][1], duration),
            [h EXCEPT ![i] = Some(timed_stats(h[i][1], duration))], inf, 0)

MulOutcome(h, inf, i, j) ==
    IF Len(h[j][1].data.dates) < 2
    THEN Outcome(truncate_error(h[j][1]), h, inf, IF truncate_error(h[j][1]) = "" THEN j ELSE 0)
    ELSE LET first == InterpolateOutcome(h, inf, j, h[i][1].data.dates)
             h1 == first.heap
             self == h1[i][1]
             mnem == h1[j][1]
             self_idx == intersect_self_idx(self.data.dates, mnem.data.dates)
             mnem_idx == intersect_mnem_idx(self.data.dates, mnem.data.dates)
         IN  IF first.err # "" THEN Outcome(first.err, h, inf, 0)
             ELSE IF choose_blocks_error(self, mnem, self_idx, mnem_idx) # ""
             THEN Outcome("ValueError", h1, inf, 0)
             ELSE IF product_error(self, mnem) # "" THEN Outcome("TypeError", h1, inf, 0)
             ELSE IF InitRaises(mul_new(self, mnem).data, self.meta)
             THEN Outcome("ZeroDivisionError", h1, inf, 0)
             ELSE IF self.info = None \/ mnem.info = None THEN Outcome("TypeError", h1, inf, 0)
             ELSE Outcome("",
                          [h1 EXCEPT ![NewSlot] = Some(mul_new(self, mnem))],
                          [inf EXCEPT ![self.info[1]] =
                              mul_info(inf[self.info[1]], inf[mnem.info[1]])],
                          NewSlot)

(* ---------------------------- actions --------------------------------- *)

(* a behaviour makes as many calls as its initial state allows *)
Fresh == calls_left > 0

Apply(out, call) ==
    /\ heap' = out.heap
    /\ infos' = out.infos
    /\ last' = call
    /\ pre' = [heap |-> heap, infos |-> infos]
    /\ calls_left' = calls_left - 1
    /\ UNCHANGED query

Add(i, j) ==
    /\ Fresh
    /\ Live(i) /\ Live(j)
    /\ LET out == AddOutcome(heap, infos, i, j)
       IN  Apply(out, Call("add", i, j, <<>>, out.err, out.ret))

Mul(i, j) ==
    /\ Fresh
    /\ Live(i) /\ Live(j)
    /\ LET out == MulOutcome(heap, infos, i, j)
       IN  Apply(out, Call("mul", i, j, <<>>, out.err, out.ret))

(* the targets of a call are a time axis: non-decreasing, possibly with repeats *)
TargetSeqs == {t \in SeqsUpTo(Times, MaxLen) : IsSorted(t)}

Interpolate(i, times) ==
    /\ Fresh
    /\ Live(i)
    /\ LET out == InterpolateOutcome(heap, infos, i, times)
       IN  Apply(out, Call("interpolate", i, 0, times, out.err, out.ret))

(* get_mnemonic expands change-only series only *)
ChangeOnlyAddPoints(i) ==
    /\ Fresh
    /\ Live(i)
    /\ HasMeta(Obj(i).meta) /\ AllPoints(Obj(i).meta) = 0
    /\ LET out == ChangeOnlyAddPointsOutcome(heap, infos, i)
       IN  Apply(out, Call("change_only_add_points", i, 0, <<>>, out.err, out.ret))

FullStats(i) ==
    /\ Fresh
    /\ Live(i)
    /\ LET out == FullStatsOutcome(heap, infos, i)
       IN  Apply(out, Call("full_stats", i, 0, <<>>, out.err, out.ret))

BlockStats(i) ==
    /\ Fresh
    /\ Live(i)
    /\ LET out == BlockStatsOutcome(heap, infos, i)
       IN  Apply(out, Call("block_stats", i, 0, <<>>, out.err, out.ret))

DailyStats(i) ==
    /\ Fresh
    /\ Live(i)
    /\ LET out == DailyStatsOutcome(heap, infos, i)
       IN  Apply(out, Call("daily_stats", i, 0, <<>>, out.err, out.ret))

TimedStats(i, duration) ==
    /\ Fresh
    /\ Live(i)
    /\ LET out == TimedStatsOutcome(heap, infos, i, duration)
       IN  Apply(out, Call("timed_stats", i, 0, <<duration>>, out.err, out.ret))

(* ---------------------------- initial states -------------------------- *)

DateSeqs == {d \in SeqsUpTo(Times, MaxLen) : StrictlySorted(d)}

(* values that alternate between two levels, starting at either *)
ValuesFor(n, c, str) ==
    [k \in 1..n |-> IF str THEN Str(1 + ((c + k) % 2)) ELSE Num(1 + ((c + k) % 2))]

BlockChoices(n) ==
    {<<NoneBlock>>}
    \cup (IF n >= 1 THEN {<<0, n>>} ELSE {})
    \cup (IF n >= 2 THEN {<<0, 1, n>>} ELSE {})

InfoDict(k) ==
    [unit |-> Some(<<IF k = 1 THEN "m" ELSE "s">>),
     tlmMnemonic |-> Some(<<IF k = 1 THEN "MNEM_A" ELSE "MNEM_B">>),
     description |-> Some(<<IF k = 1 THEN "first" ELSE "second">>)]

Operands(ids, metas, strs, infoset) ==
    UNION {{EdbMnemonic(id, Some(1), Some(MaxTime), Table(d, ValuesFor(Len(d), c, str)),
                        meta, info, b) :
                id \in ids, meta \in metas, str \in strs, info \in infoset,
                c \in {0, 1}, b \in BlockChoices(Len(d))} : d \in DateSeqs}

Metas == {MetaOf(0), MetaOf(1)}

Dicts == <<InfoDict(1), InfoDict(2)>>

InitState(h, calls) ==
    /\ heap = h
    /\ infos = Dicts
    /\ last = Call("init", 0, 0, <<>>, "", 0)
    /\ pre = [heap |-> h, infos |-> Dicts]
    /\ calls_left = calls
    /\ query = NoQuery

(* two instances of one mnemonic, numeric, with their metadata and descriptors, *)
(* and one call                                                                *)
Init ==
    \E a \in Operands({"MNEM_A"}, Metas, {FALSE}, {Some(1)}),
       b \in Operands({"MNEM_A"}, Metas, {FALSE}, {Some(2)}) :
        InitState(<<Some(a), Some(b), None>>, 1)

Next ==
    \/ \E i, j \in Slots : Add(i, j)
    \/ \E i, j \in Slots : Mul(i, j)

Spec == Init /\ [][Next]_vars

(* instances of one or of two mnemonics, with or without a descriptor *)
InitAdd ==
    \E a \in Operands({"MNEM_A"}, {MetaOf(1)}, {FALSE}, {None, Some(1)}),
       b \in Operands({"MNEM_A", "MNEM_B"}, {MetaOf(1)}, {FALSE}, {None, Some(2)}) :
        InitState(<<Some(a), Some(b), None>>, 1)

NextAdd == \E i, j \in Slots : Add(i, j)

SpecAdd == InitAdd /\ [][NextAdd]_vars

(* one instance built from any table: numeric or string values, with or   *)
(* without metadata and descriptor, then one call on it                   *)
Construct(k) ==
    /\ ~Live(k)
    /\ \E id \in {"MNEM_A"}, meta \in Metas \cup {MetaAbsent}, str \in BOOLEAN,
          info \in {None, Some(1)}, d \in DateSeqs, c \in {0, 1} :
          \E b \in BlockChoices(Len(d)) :
            LET data == Table(d, ValuesFor(Len(d), c, str))
            IN  /\ heap' = IF InitRaises(data, meta) THEN heap
                           ELSE [heap EXCEPT ![k] =
                                    Some(EdbMnemonic(id, Some(1), Some(MaxTime), data, meta, info, b))]
                /\ last' = Call("construct", k, 0, <<>>,
                                IF InitRaises(data, meta) THEN "ZeroDivisionError" ELSE "",
                                IF InitRaises(data, meta) THEN 0 ELSE k)
                /\ pre' = [heap |-> heap, infos |-> infos]
                /\ UNCHANGED <<infos, calls_left, query>>

InitOne == InitState(<<None, None, None>>, 1)

NextOne ==
    \/ Construct(1)
    \/ Add(1, 1)
    \/ Mul(1, 1)
    \/ \E times \in TargetSeqs : Interpolate(1, times)
    \/ ChangeOnlyAddPoints(1)
    \/ FullStats(1)
    \/ BlockStats(1)
    \/ DailyStats(1)
    \/ \E duration \in Durations : TimedStats(1, duration)

SpecOne == InitOne /\ [][NextOne]_vars

(* sequences of calls on two short instances of one mnemonic *)
SeqDates == {<<1>>, <<1, 2>>, <<2, 3>>}

SeqTargets == {<<2, 2>>, <<1, 3>>}

SeqOperands(info) ==
    {EdbMnemonic("MNEM_A", Some(1), Some(MaxTime), Table(d, ValuesFor(Len(d), 0, FALSE)),
                 meta, info, b) :
        meta \in Metas, d \in SeqDates, b \in {<<NoneBlock>>, <<0, 1>>}}

InitSeq ==
    \E a \in SeqOperands(Some(1)), b \in SeqOperands(Some(2)) :
        InitState(<<Some(a), Some(b), None>>, MaxOps)

NextSeq ==
    \/ \E i, j \in Slots : Add(i, j)
    \/ \E i, j \in Slots : Mul(i, j)
    \/ \E i \in Slots, times \in SeqTargets : Interpolate(i, times)
    \/ \E i \in Slots : ChangeOnlyAddPoints(i)

SpecSeq == InitSeq /\ [][NextSeq]_vars

(* get_mnemonic, step by step: the service's answer, the bounding points  *)
(* of a change-only mnemonic, the construction, the expansion of a         *)
(* change-only mnemonic, the return                                        *)
FetchSeqs == {d \in SeqsUpTo(Times, MaxTime) : StrictlySorted(d)}

QueryFetch ==
    /\ query.pc = "idle"
    /\ \E meta \in Metas, start_time \in Times, end_time \in Times, d \in FetchSeqs,
          c \in {0, 1}, info \in {None, Some(1)} :
          /\ start_time <= end_time
          /\ AllPoints(meta) # 0 =>
                 \A k \in 1..Len(d) : d[k] >= start_time /\ d[k] <= end_time
          /\ query' = [pc |-> "fetched",
                       meta |-> meta,
                       bracket |-> (AllPoints(meta) = 0),
                       start_time |-> start_time,
                       end_time |-> end_time,
                       fetched |-> Table(d, ValuesFor(Len(d), c, FALSE)),
                       dates |-> d,
                       values |-> ValuesFor(Len(d), c, FALSE),
                       info |-> info,
                       err |-> ""]
    /\ UNCHANGED <<heap, infos, last, pre, calls_left>>

QueryBound ==
    /\ query.pc = "fetched"
    /\ query.bracket
    /\ LET out == change_only_bounding_points(query.dates, query.values,
                                               query.start_time, query.end_time)
       IN  query' = [query EXCEPT !.pc = "bounded",
                                  !.dates = out.dates,
                                  !.values = out.euvalues]
    /\ UNCHANGED <<heap, infos, last, pre, calls_left>>

QueryConstruct ==
    /\ query.pc \in {"fetched", "bounded"}
    /\ query.pc = (IF query.bracket THEN "bounded" ELSE "fetched")
    /\ LET data == Table(query.dates, query.values)
       IN  IF InitRaises(data, query.meta)
           THEN /\ query' = [query EXCEPT !.pc = "raised", !.err = "ZeroDivisionError"]
                /\ UNCHANGED heap
           ELSE /\ query' = [query EXCEPT !.pc = "constructed"]
                /\ heap' = [heap EXCEPT ![1] =
                               Some(EdbMnemonic("MNEM_A", Some(query.start_time),
                                                Some(query.end_time), data, query.meta,
                                                query.info, <<NoneBlock>>))]
    /\ UNCHANGED <<infos, last, pre, calls_left>>

(* variant: every series that holds samples is expanded *)
QueryExpand_any ==
    /\ query.pc = "constructed"
    /\ Len(Obj(1).data.dates) > 0
    /\ heap' = [heap EXCEPT ![1] = Some(change_only_add_points(Obj(1)))]
    /\ query' = [query EXCEPT !.pc = "expanded"]
    /\ UNCHANGED <<infos, last, pre, calls_left>>

QueryExpand ==
    /\ query.pc = "constructed"
    /\ query.bracket
    /\ Len(Obj(1).data.dates) > 0
    /\ heap' = [heap EXCEPT ![1] = Some(change_only_add_points(Obj(1)))]
    /\ query' = [query EXCEPT !.pc = "expanded"]
    /\ UNCHANGED <<infos, last, pre, calls_left>>

QueryReturn ==
    /\ \/ query.pc = "expanded"
       \/ query.pc = "constructed" /\ ~(query.bracket /\ Len(Obj(1).data.dates) > 0)
    /\ query' = [query EXCEPT !.pc = "returned"]
    /\ UNCHANGED <<heap, infos, last, pre, calls_left>>

(* one call of get_mnemonic *)
InitQuery == InitState(<<None, None, None>>, 0)

NextQuery ==
    \/ QueryFetch
    \/ QueryBound
    \/ QueryConstruct
    \/ QueryExpand
    \/ QueryReturn

SpecQuery == InitQuery /\ [][NextQuery]_vars

(* one statistics call on a numeric instance of up to MaxLen + 1 samples *)
StatDates == {d \in SeqsUpTo(1..(MaxTime + 1), MaxLen + 1) : StrictlySorted(d)}

StatOperands ==
    UNION {{EdbMnemonic("MNEM_A", Some(1), Some(MaxTime + 1),
                        Table(d, ValuesFor(Len(d), c, FALSE)), meta, Some(1), b) :
               meta \in Metas, c \in {0, 1}, b \in BlockChoices(Len(d))} : d \in StatDates}

InitStats == \E a \in StatOperands : InitState(<<Some(a), None, None>>, 1)

NextStats ==
    \/ FullStats(1)
    \/ BlockStats(1)
    \/ DailyStats(1)
    \/ \E duration \in Durations : TimedStats(1, duration)

SpecStats == InitStats /\ [][NextStats]_vars

(* ---------------------------- properties ------------------------------ *)

PreObj(k) == pre.heap[k][1]

Returned == heap[last.ret][1]

PreSelf == PreObj(last.self)

PreMnem == PreObj(last.mnem)

NonEmptyAdd ==
    /\ last.op = "add"
    /\ Len(PreSelf.data.dates) > 0
    /\ Len(PreMnem.data.dates) > 0
    /\ PreSelf.mnemonic_identifier = PreMnem.mnemonic_identifier

(* C1: adding a series and an empty series of the same identifier, in      *)
(* either order, returns a series with the samples (timestamps and values) *)
(* and the blocks of the non-empty one.                                    *)
C1_AddEmptyIsIdentity ==
    (/\ last.op = "add"
     /\ PreSelf.mnemonic_identifier = PreMnem.mnemonic_identifier
     /\ (Len(PreSelf.data.dates) = 0 \/ Len(PreMnem.data.dates) = 0))
    => LET x == IF Len(PreSelf.data.dates) = 0 THEN PreMnem ELSE PreSelf
       IN  /\ last.err = ""
           /\ last.ret # 0
           /\ Returned.data.dates = x.data.dates
           /\ Returned.data.euvalues = x.data.euvalues
           /\ Returned.blocks = x.blocks

C1_Witness ==
    /\ last.op = "add"
    /\ Len(PreSelf.data.dates) = 0
    /\ Len(PreMnem.data.dates) = 2
    /\ PreMnem.blocks = <<0, 1, 2>>
    /\ last.ret = last.mnem

(* the number of samples of a concatenation whose timestamp occurred earlier in it *)
overlapCount(cd) == Cardinality({i \in 1..Len(cd) : \E j \in 1..(i - 1) : cd[j] = cd[i]})

FirstValueIn(cd, cv, t) == cv[SetMin({i \in 1..Len(cd) : cd[i] = t})]

(* the concatenations the claim allows: the operand that starts earlier first *)
ConcatOrders(a, b) ==
    (IF SeqMin(a.data.dates) <= SeqMin(b.data.dates) THEN {<<a, b>>} ELSE {})
    \cup (IF SeqMin(b.data.dates) <= SeqMin(a.data.dates) THEN {<<b, a>>} ELSE {})

(* C2: the sum of two non-empty series of one identifier has strictly      *)
(* increasing timestamps, len(a) + len(b) - overlapCount samples, and at   *)
(* each timestamp the value of its first occurrence in the samples of the  *)
(* operand that starts earlier followed by those of the other operand.     *)
C2_AddDedup ==
    NonEmptyAdd =>
        /\ last.err = ""
        /\ StrictlySorted(Returned.data.dates)
        /\ \E o \in ConcatOrders(PreSelf, PreMnem) :
              LET cd == o[1].data.dates \o o[2].data.dates
                  cv == o[1].data.euvalues \o o[2].data.euvalues
              IN  /\ Len(Returned.data.dates) = Len(cd) - overlapCount(cd)
                  /\ Len(Returned.data.euvalues) = Len(Returned.data.dates)
                  /\ \A k \in 1..Len(Returned.data.dates) :
                        /\ \E i \in 1..Len(cd) : cd[i] = Returned.data.dates[k]
                        /\ Returned.data.euvalues[k] = FirstValueIn(cd, cv, Returned.data.dates[k])

C2_Witness ==
    /\ NonEmptyAdd
    /\ PreSelf.data.dates = <<1, 2>>
    /\ PreMnem.data.dates = <<2, 3>>
    /\ PreSelf.data.euvalues[2] # PreMnem.data.euvalues[1]
    /\ Returned.data.dates = <<1, 2, 3>>

BlocksOk(s) ==
    s.blocks[1] # NoneBlock =>
        /\ IsSorted(s.blocks)
        /\ s.blocks[Len(s.blocks)] <= Len(s.data.dates)

(* C6: the blocks of a series returned by Add, Interpolate or Multiply,    *)
(* when the operands' blocks are non-decreasing and end within their       *)
(* samples, are non-decreasing and end within the samples of the result.   *)
C6_BlocksMonotoneAndBounded ==
    (/\ last.op \in {"add", "mul", "interpolate"}
     /\ last.err = ""
     /\ BlocksOk(PreSelf)
     /\ (last.op # "interpolate" => BlocksOk(PreMnem)))
    => /\ (last.op = "interpolate" => BlocksOk(Obj(last.self)))
       /\ (last.op # "interpolate" => BlocksOk(Returned))

(* C10: the sum of two non-empty series is a new instance, and both        *)
(* operands keep their samples, blocks, statistics, time bounds, metadata  *)
(* and descriptor.                                                         *)
C10_AddLeavesOperands ==
    (NonEmptyAdd /\ last.err = "") =>
        /\ last.ret \notin {last.self, last.mnem}
        /\ Live(last.ret)
        /\ Obj(last.self) = PreSelf
        /\ Obj(last.mnem) = PreMnem
        /\ infos = pre.infos

C10_Witness ==
    /\ NonEmptyAdd
    /\ last.err = ""
    /\ last.self # last.mnem
    /\ PreSelf.mean # None
    /\ PreSelf.blocks # <<NoneBlock>>
    /\ Returned.data.dates # PreSelf.data.dates

(* C3: adding two series of different identifiers raises ValueError,       *)
(* whatever the operands hold; nothing is returned and no operand changes. *)
C3_AddMismatchRaisesValueError ==
    (last.op = "add" /\ PreSelf.mnemonic_identifier # PreMnem.mnemonic_identifier)
    => /\ last.err = "ValueError"
       /\ last.ret = 0
       /\ heap = pre.heap
       /\ infos = pre.infos

Interpolated == last.op = "interpolate" /\ last.err = ""

Constructed == last.op = "construct"

Resampled == last.op \in {"interpolate", "change_only_add_points"} /\ last.err = ""

StatsDescribe(s) ==
    /\ s.mean = full_stats(s).mean
    /\ s.median = full_stats(s).median
    /\ s.stdev = full_stats(s).stdev
    /\ s.median_times = full_stats(s).median_times

(* C8 as claimed: after interpolate or change_only_add_points replaced the *)
(* samples of a series that holds statistics, the statistics are those of  *)
(* the new samples.                                                        *)
C8_StatsFollowSamples ==
    (/\ Resampled
     /\ PreSelf.mean # None
     /\ Len(Obj(last.self).data.dates) > 0
     /\ ~full_stats_raises(Obj(last.self)))
    => StatsDescribe(Obj(last.self))

(* C8: interpolate and change_only_add_points do not recompute the         *)
(* statistics: mean, median, stdev and median_times stay as they were      *)
(* before the call, computed from the samples the series held then.        *)
C8_StatsKeptAcrossResample ==
    last.op \in {"interpolate", "change_only_add_points"} =>
        /\ Obj(last.self).mean = PreSelf.mean
        /\ Obj(last.self).median = PreSelf.median
        /\ Obj(last.self).stdev = PreSelf.stdev
        /\ Obj(last.self).median_times = PreSelf.median_times

C8_Witness ==
    /\ Resampled
    /\ last.op = "interpolate"
    /\ PreSelf.mean # None
    /\ StatsDescribe(PreSelf)
    /\ Len(Obj(last.self).data.dates) > 0
    /\ Obj(last.self).data # PreSelf.data
    /\ ~full_stats_raises(Obj(last.self))
    /\ ~StatsDescribe(Obj(last.self))

(* the series a successful Add, Interpolate or Multiply call results in *)
Combined == last.op \in {"add", "mul"} /\ last.err = "" /\ last.ret # 0

ResultDates ==
    IF last.op = "interpolate" THEN Obj(last.self).data.dates ELSE Returned.data.dates

(* C4 as claimed: after Add, Interpolate or Multiply, at any point of a    *)
(* sequence of such calls, no two samples of the resulting series share a  *)
(* timestamp, targets with repeated timestamps included.                   *)
C4_UniqueTimestamps ==
    (Combined \/ Interpolated) => NoDup(ResultDates)

(* C4: a series newly built by Add or Multiply has pairwise distinct       *)
(* timestamps; Add and Multiply on operands with pairwise distinct         *)
(* timestamps return a series with pairwise distinct timestamps; and       *)
(* Interpolate leaves pairwise distinct timestamps when its targets are    *)
(* pairwise distinct.  Interpolate keeps one sample per retained target,   *)
(* so repeated targets give samples that share a timestamp.                *)
C4_UniqueUnlessTargetsRepeat ==
    /\ (Combined /\ last.ret = NewSlot) => NoDup(ResultDates)
    /\ (Combined /\ NoDup(PreSelf.data.dates) /\ NoDup(PreMnem.data.dates))
           => NoDup(ResultDates)
    /\ (Interpolated /\ NoDup(last.times)) => NoDup(ResultDates)

C4_Witness ==
    /\ Combined
    /\ last.op = "add"
    /\ last.ret = NewSlot
    /\ ~NoDup(PreSelf.data.dates)
    /\ Len(ResultDates) >= 2
    /\ NoDup(ResultDates)

(* C9 as claimed: in every state data_start_time and data_end_time of a    *)
(* series are the minimum and maximum timestamp of the samples it holds,   *)
(* and are undefined exactly when it holds none.                           *)
C9_DataBoundsAreMinMax ==
    \A k \in {x \in Slots : Live(x)} :
        LET d == Obj(k).data.dates
        IN  /\ Obj(k).data_start_time = IF Len(d) = 0 THEN None ELSE Some(SeqMin(d))
            /\ Obj(k).data_end_time = IF Len(d) = 0 THEN None ELSE Some(SeqMax(d))

Multiplied == last.op = "mul" /\ last.err = ""

(* C11 as claimed: Multiply returns a new instance and leaves the samples, *)
(* blocks and descriptor of self and the samples and blocks of mnem as     *)
(* they were, except that mnem is emptied when it holds fewer than two     *)
(* samples.                                                                *)
C11_MulLeavesOperands ==
    Multiplied =>
        /\ Obj(last.self).data = PreSelf.data \/ last.self = last.mnem
        /\ Obj(last.self).blocks = PreSelf.blocks \/ last.self = last.mnem
        /\ PreSelf.info # None => infos[PreSelf.info[1]] = pre.infos[PreSelf.info[1]]
        /\ Len(PreMnem.data.dates) >= 2 =>
               /\ last.ret = NewSlot
               /\ Obj(last.mnem).data = PreMnem.data
               /\ Obj(last.mnem).blocks = PreMnem.blocks
        /\ Len(PreMnem.data.dates) < 2 => Len(Obj(last.mnem).data.dates) = 0

(* C12 as claimed: Multiply by a series of fewer than two samples does not *)
(* fail and returns that series with no samples.                           *)
C12_MulShortReturnsEmpty ==
    (last.op = "mul" /\ Len(PreMnem.data.dates) < 2) =>
        /\ last.err = ""
        /\ last.ret = last.mnem
        /\ Len(Returned.data.dates) = 0

(* the number of timestamps self and the interpolated mnem have in common *)
CommonCount ==
    Cardinality({Obj(last.self).data.dates[k] : k \in 1..Len(Obj(last.self).data.dates)}
                \cap
                {Obj(last.mnem).data.dates[k] : k \in 1..Len(Obj(last.mnem).data.dates)})

(* C13: once mnem is interpolated, Multiply gives the product the blocks   *)
(* of self when all samples of self are common to both, else the blocks of *)
(* the interpolated mnem when all of its samples are common; when neither  *)
(* is so it raises ValueError and creates no instance.                     *)
C13_MulBlockDonor ==
    (last.op = "mul" /\ Len(PreMnem.data.dates) >= 2 /\ last.err \in {"", "ValueError"}) =>
        LET a == Obj(last.self)
            b == Obj(last.mnem)
        IN  IF CommonCount = Len(a.data.dates)
            THEN last.err = "" /\ Returned.blocks = a.blocks
            ELSE IF CommonCount = Len(b.data.dates)
            THEN last.err = "" /\ Returned.blocks = b.blocks
            ELSE /\ last.err = "ValueError"
                 /\ last.ret = 0
                 /\ NewSlot \notin {last.self, last.mnem} => heap[NewSlot] = pre.heap[NewSlot]

C13_Witness ==
    /\ last.op = "mul"
    /\ Len(PreMnem.data.dates) >= 2
    /\ last.err = "ValueError"
    /\ CommonCount < Len(Obj(last.self).data.dates)
    /\ CommonCount < Len(Obj(last.mnem).data.dates)

C13_DonorIsMnem ==
    /\ Multiplied
    /\ Len(PreMnem.data.dates) >= 2
    /\ CommonCount < Len(Obj(last.self).data.dates)
    /\ Returned.blocks = Obj(last.mnem).blocks
    /\ Returned.blocks # Obj(last.self).blocks

(* C14 as claimed: interpolating an all-points series of fewer than two    *)
(* samples raises nothing and leaves the series without samples.           *)
C14_InterpolateShortAllPoints ==
    (/\ last.op = "interpolate"
     /\ HasMeta(PreSelf.meta)
     /\ AllPoints(PreSelf.meta) # 0
     /\ Len(PreSelf.data.dates) < 2)
    => /\ last.err = ""
       /\ Len(Obj(last.self).data.dates) = 0

(* C15 as claimed: on a series without samples full_stats, block_stats,   *)
(* daily_stats, timed_stats and interpolate raise nothing, and leave empty *)
(* lists of statistics or no samples.                                      *)
C15_EmptySeriesIsSafe ==
    (/\ last.op \in {"full_stats", "block_stats", "daily_stats", "timed_stats", "interpolate"}
     /\ Len(PreSelf.data.dates) = 0)
    => /\ last.err = ""
       /\ Len(Obj(last.self).data.dates) = 0

(* the last index of a sorted list with a date before time, 0 when none *)
LastBefore(dates, time) ==
    IF \E k \in 1..Len(dates) : dates[k] < time
    THEN CHOOSE k \in 1..Len(dates) :
             dates[k] < time /\ \A j \in (k + 1)..Len(dates) : dates[j] >= time
    ELSE 0

(* the subsequences of the fetched samples that lie within [start, end] *)
Interior(col) ==
    LET d == query.fetched.dates
        lo == Cardinality({k \in 1..Len(d) : d[k] < query.start_time})
        n == Cardinality({k \in 1..Len(d) : d[k] >= query.start_time /\ d[k] <= query.end_time})
    IN  SubSeq(col, lo + 1, lo + n)

(* C16: for a time-sorted list and start <= end, change_only_bounding_points *)
(* returns the start time with the value of the last sample before it (NaN  *)
(* when none), then the samples within [start, end] in their order, then    *)
(* the end time with the value of the last sample before it (NaN when none) *)
C16_BoundingPoints ==
    query.pc = "bounded" =>
        LET d == query.fetched.dates
            v == query.fetched.euvalues
            n == Len(query.dates)
            b0 == LastBefore(d, query.start_time)
            b1 == LastBefore(d, query.end_time)
        IN  /\ n = Len(query.values)
            /\ n >= 2
            /\ query.dates[1] = query.start_time
            /\ query.values[1] = IF b0 = 0 THEN NaN ELSE v[b0]
            /\ query.dates[n] = query.end_time
            /\ query.values[n] = IF b1 = 0 THEN NaN ELSE v[b1]
            /\ SubSeq(query.dates, 2, n - 1) = Interior(d)
            /\ SubSeq(query.values, 2, n - 1) = Interior(v)

C16_Witness ==
    /\ query.pc = "bounded"
    /\ query.fetched.dates = <<1, 2, 3>>
    /\ query.start_time = 2
    /\ query.end_time = 3
    /\ query.values[1] # NaN
    /\ query.values[1] # query.values[Len(query.values)]
    /\ Len(query.dates) = 4

(* C17 as claimed: change_only_add_points turns n >= 1 samples into 2n - 1 *)
(* samples: every original sample, and before each original sample but    *)
(* the first a sample one microsecond earlier with the previous value.     *)
C17_AddPointsInterleaves ==
    (last.op = "change_only_add_points" /\ last.err = "") =>
        LET old == PreSelf.data
            new == Obj(last.self).data
            n == Len(old.dates)
        IN  /\ Len(new.dates) = 2 * n - 1
            /\ Len(new.euvalues) = 2 * n - 1
            /\ \A i \in 1..n :
                  /\ new.dates[2 * i - 1] = old.dates[i]
                  /\ new.euvalues[2 * i - 1] = old.euvalues[i]
            /\ \A i \in 2..n :
                  /\ new.dates[2 * i - 2] = old.dates[i] - delta_t
                  /\ new.euvalues[2 * i - 2] = old.euvalues[i - 1]

(* C18: block_stats on a series of text values gives, for each block, the  *)
(* value at the block's first index as mean and median and 0 as stdev,     *)
(* without sigma clipping.                                                 *)
C18_BlockStatsOfText ==
    (/\ last.op = "block_stats"
     /\ last.err = ""
     /\ IsStrColumn(PreSelf.data.euvalues))
    => LET s == Obj(last.self)
           b == PreSelf.blocks
       IN  /\ Len(s.mean[1]) = Len(b) - 1
           /\ Len(s.median[1]) = Len(b) - 1
           /\ Len(s.stdev[1]) = Len(b) - 1
           /\ \A k \in 1..(Len(b) - 1) :
                 /\ s.mean[1][k] = <<"mean", "value", <<<<PreSelf.data.euvalues[b[k] + 1], 1>>>>>>
                 /\ s.median[1][k] = <<"median", "value", <<<<PreSelf.data.euvalues[b[k] + 1], 1>>>>>>
                 /\ s.stdev[1][k] = <<"stdev", "zero", <<>>>>

C18_Witness ==
    /\ last.op = "block_stats"
    /\ last.err = ""
    /\ IsStrColumn(PreSelf.data.euvalues)
    /\ PreSelf.blocks = <<0, 1, 2>>
    /\ Len(Obj(last.self).mean[1]) = 2
    /\ Obj(last.self).mean[1][1] # Obj(last.self).mean[1][2]

(* C20 as claimed: the sum of two non-empty series has as blocks the block *)
(* starts of the later operand, each decreased by overlapCount, after the  *)
(* blocks of the earlier operand when both have blocks; the blocks of the  *)
(* one operand that has blocks; the sentinel when neither has.             *)
C20_AddShiftsBlocksDown ==
    (NonEmptyAdd /\ last.err = "" /\ last.ret = NewSlot) =>
        \E o \in ConcatOrders(PreSelf, PreMnem) :
            LET early == o[1].blocks
                late == o[2].blocks
                n == overlapCount(o[1].data.dates \o o[2].data.dates)
                off == IF early[1] = NoneBlock THEN 0 ELSE Len(early)
                new == Returned.blocks
            IN  IF late[1] # NoneBlock
                THEN /\ Len(new) = off + Len(late)
                     /\ off > 0 => SubSeq(new, 1, off) = early
                     /\ \A k \in 1..(Len(late) - 1) : new[off + k] = late[k] - n
                ELSE IF early[1] # NoneBlock THEN new = early
                ELSE new = <<NoneBlock>>

(* the windows of the last statistics call, each with its dates and values *)
StatWindows ==
    IF last.op = "full_stats"
    THEN <<[dates |-> PreSelf.data.dates, euvalues |-> PreSelf.data.euvalues]>>
    ELSE IF last.op = "block_stats" THEN block_windows(PreSelf)
    ELSE IF last.op = "daily_stats" THEN daily_windows(PreSelf)
    ELSE timed_windows(PreSelf, last.times[1])

StatsCall ==
    /\ last.op \in {"full_stats", "block_stats", "daily_stats", "timed_stats"}
    /\ last.err = ""

(* the three statistics of window k are computed from sample *)
ComputedFrom(k, sample) ==
    /\ Obj(last.self).mean[1][k] = <<"mean", "clipped", sample>>
    /\ Obj(last.self).median[1][k] = <<"median", "clipped", sample>>
    /\ Obj(last.self).stdev[1][k] = <<"stdev", "clipped", sample>>

HoldTime(w, i) == w.dates[i + 1] - w.dates[i]

MinHoldTime(w) == SeqMin([i \in 1..(Len(w.dates) - 1) |-> HoldTime(w, i)])

DateSet(s) == {s.data.dates[k] : k \in 1..Len(s.data.dates)}

(* the value of the first sample of s at timestamp t *)
ValueAt(s, t) == s.data.euvalues[SetMin({k \in 1..Len(s.data.dates) : s.data.dates[k] = t})]

(* C21: when Multiply succeeds with mnem holding at least two samples, the *)
(* timestamps of the product are exactly the timestamps present both in    *)
(* self and in mnem as interpolated onto the timestamps of self, in        *)
(* increasing order, and each value of the product is the value of self    *)
(* times the interpolated value of mnem at that timestamp.                 *)
C21_MulIsPointwiseProduct ==
    (Multiplied /\ Len(PreMnem.data.dates) >= 2) =>
        LET a == PreSelf
            b == Obj(last.mnem)
            r == Returned
        IN  /\ last.ret = NewSlot
            /\ StrictlySorted(r.data.dates)
            /\ DateSet(r) = DateSet(a) \cap DateSet(b)
            /\ Len(r.data.euvalues) = Len(r.data.dates)
            /\ \A k \in 1..Len(r.data.dates) :
                   r.data.euvalues[k] = RatMul(ValueAt(a, r.data.dates[k]),
                                               ValueAt(b, r.data.dates[k]))

C21_Witness ==
    /\ Multiplied
    /\ last.self # last.mnem
    /\ Len(PreMnem.data.dates) >= 2
    /\ Len(Returned.data.dates) >= 1
    /\ Len(Returned.data.dates) < Len(PreSelf.data.dates)
    /\ Returned.data.euvalues[1] = Num(4)

(* C22 as claimed: interpolating a change-only series that holds samples   *)
(* raises nothing and leaves, in target order, one sample (target, v) for  *)
(* every target at or after the first source timestamp, v being the value  *)
(* of the latest source sample at or before the target; earlier targets    *)
(* are left out, also when no sample remains.                              *)
C22_ChangeOnlyInterpolate ==
    (/\ last.op = "interpolate"
     /\ HasMeta(PreSelf.meta)
     /\ AllPoints(PreSelf.meta) = 0
     /\ Len(PreSelf.data.dates) >= 1) =>
        LET src == PreSelf.data
            times == last.times
            keep == [k \in 1..Len(times) |-> times[k] >= src.dates[1]]
            vals == [k \in 1..Len(times) |->
                        IF keep[k]
                        THEN src.euvalues[SetMax({i \in 1..Len(src.dates) : src.dates[i] <= times[k]})]
                        ELSE Unspecified]
        IN  /\ last.err = ""
            /\ Obj(last.self).data.dates = Filter(times, keep, 1)
            /\ Obj(last.self).data.euvalues = Filter(vals, keep, 1)

(* the new samples at or after the timestamp of block start k of the source *)
Reached(src, new_dates, k) ==
    {i \in 1..Len(new_dates) : new_dates[i] >= src.data.dates[src.blocks[k] + 1]}

(* the block starts of the source that some new sample reaches *)
KeptStarts(src, new_dates) ==
    {k \in 1..(Len(src.blocks) - 1) : Reached(src, new_dates, k) # {}}

(* C23: after Interpolate the blocks are, for each block start of the      *)
(* source (every entry but the last) that some new sample reaches, the     *)
(* index of the first new sample at or after the timestamp the block start *)
(* had, in the order of the block starts, followed by the number of new    *)
(* samples; block starts no new sample reaches are left out.               *)
C23_InterpolateBlocks ==
    Interpolated =>
        LET src == PreSelf
            new_dates == Obj(last.self).data.dates
            kept == KeptStarts(src, new_dates)
            blocks == Obj(last.self).blocks
        IN  /\ Len(blocks) = Cardinality(kept) + 1
            /\ blocks[Len(blocks)] = Len(new_dates)
            /\ \A k \in kept :
                   blocks[Cardinality({j \in kept : j <= k})]
                       = SetMin(Reached(src, new_dates, k)) - 1

C23_Witness ==
    /\ Interpolated
    /\ Len(PreSelf.blocks) = 3
    /\ Cardinality(KeptStarts(PreSelf, Obj(last.self).data.dates)) = 1
    /\ Obj(last.self).blocks = <<0, 1>>

BlockStatsDone == last.op = "block_stats" /\ last.err = ""

(* the samples of s at the 0-based indices lo .. hi - 1 *)
RowsOf(col, lo, hi) == [i \in 1..(hi - lo) |-> col[lo + i]]

(* C24: block_stats replaces mean, median, stdev and median_times by lists *)
(* of len(blocks) - 1 entries, entry i computed from the samples at the    *)
(* indices blocks[i] up to, not including, blocks[i + 1].                  *)
C24_BlockStatsWindows ==
    BlockStatsDone =>
        LET s == PreSelf
            r == Obj(last.self)
            n == Len(s.blocks) - 1
        IN  /\ Len(r.mean[1]) = n
            /\ Len(r.median[1]) = n
            /\ Len(r.stdev[1]) = n
            /\ Len(r.median_times[1]) = n
            /\ \A k \in 1..n :
                   LET dates == RowsOf(s.data.dates, s.blocks[k], s.blocks[k + 1])
                       values == RowsOf(s.data.euvalues, s.blocks[k], s.blocks[k + 1])
                       st == window_stats(s.meta, dates, values)
                   IN  /\ r.mean[1][k] = st.mean
                       /\ r.median[1][k] = st.median
                       /\ r.stdev[1][k] = st.stdev
                       /\ r.median_times[1][k] = calc_median_time(dates)

C24_Witness ==
    /\ BlockStatsDone
    /\ PreSelf.blocks = <<0, 1, 3>>
    /\ AllPoints(PreSelf.meta) # 0
    /\ Len(Obj(last.self).mean[1]) = 2
    /\ Obj(last.self).mean[1][2][3] = <<<<PreSelf.data.euvalues[2], 1>>, <<PreSelf.data.euvalues[3], 1>>>>
    /\ PreSelf.mean[1] # Obj(last.self).mean[1]

(* C25 as claimed: block_stats on a series that holds samples and has the  *)
(* default blocks, the single sentinel, completes with one window that     *)
(* spans all samples of the series.                                        *)
C25_SentinelIsOneBlock ==
    (last.op = "block_stats" /\ PreSelf.blocks = <<NoneBlock>> /\ Len(PreSelf.data.dates) >= 1) =>
        LET s == PreSelf
            r == Obj(last.self)
            st == window_stats(s.meta, s.data.dates, s.data.euvalues)
        IN  /\ last.err = ""
            /\ r.mean[1] = <<st.mean>>
            /\ r.median[1] = <<st.median>>
            /\ r.stdev[1] = <<st.stdev>>
            /\ r.median_times[1] = <<calc_median_time(s.data.dates)>>

Span(s) == SeqMax(s.data.dates) - SeqMin(s.data.dates)

(* the values of the samples of s with lo <= date < hi, each counted once *)
ValuesWithin(s, lo, hi) ==
    Unweighted(Filter(s.data.euvalues,
                      [i \in 1..Len(s.data.dates) |-> s.data.dates[i] >= lo /\ s.data.dates[i] < hi],
                      1))

(* C26 as claimed: daily_stats on a series that holds samples completes    *)
(* with one window [min + k days, min + (k + 1) days) for each whole day k *)
(* of the span from the minimum timestamp on, and one more window for the  *)
(* remaining part of a day only when the span is not a whole number of     *)
(* days; an empty time range gets no window.                               *)
C26_DailyWindows ==
    (last.op = "daily_stats" /\ Len(PreSelf.data.dates) >= 1) =>
        LET s == PreSelf
            r == Obj(last.self)
            min_date == SeqMin(s.data.dates)
            count == (Span(s) \div Day) + (IF Span(s) % Day # 0 THEN 1 ELSE 0)
        IN  /\ last.err = ""
            /\ Len(r.mean[1]) = count
            /\ Len(r.median[1]) = count
            /\ Len(r.stdev[1]) = count
            /\ Len(r.median_times[1]) = count
            /\ AllPoints(s.meta) # 0 =>
                   \A k \in 1..count :
                       ComputedFrom(k, ValuesWithin(s, min_date + (k - 1) * Day, min_date + k * Day))

(* C27 as claimed: timed_stats on a series that holds samples, with a      *)
(* positive duration, completes and leaves ceiling(span / duration)        *)
(* entries in each of mean, median, stdev and median_times, entry i for    *)
(* the window [first + i * duration, first + (i + 1) * duration), also     *)
(* when a window holds no sample.                                          *)
C27_TimedWindows ==
    (last.op = "timed_stats" /\ Len(PreSelf.data.dates) >= 1) =>
        LET s == PreSelf
            r == Obj(last.self)
            duration == last.times[1]
            first == s.data.dates[1]
            count == (Span(s) + duration - 1) \div duration
        IN  /\ last.err = ""
            /\ Len(r.mean[1]) = count
            /\ Len(r.median[1]) = count
            /\ Len(r.stdev[1]) = count
            /\ Len(r.median_times[1]) = count
            /\ AllPoints(s.meta) # 0 =>
                   \A k \in 1..count :
                       ComputedFrom(k, ValuesWithin(s, first + (k - 1) * duration,
                                                       first + k * duration))

(* C29 as claimed: after daily_stats or timed_stats every sample of the    *)
(* series, the one with the maximum timestamp included, is counted in      *)
(* exactly one window.                                                     *)
C29_WindowsPartitionSamples ==
    (StatsCall /\ last.op \in {"daily_stats", "timed_stats"} /\ Len(PreSelf.data.dates) >= 1) =>
        /\ AllPoints(PreSelf.meta) # 0 =>
               \A k \in 1..Len(StatWindows) :
                   ComputedFrom(k, Unweighted(StatWindows[k].euvalues))
        /\ \A i \in 1..Len(PreSelf.data.dates) :
               Cardinality({k \in 1..Len(StatWindows) :
                               \E j \in 1..Len(StatWindows[k].dates) :
                                   StatWindows[k].dates[j] = PreSelf.data.dates[i]}) = 1

(* one step of get_mnemonic, seen from the step it reaches *)
QueryStepInOrder ==
    /\ query'.pc = "fetched" =>
           /\ query.pc = "idle"
           /\ query'.bracket <=> (AllPoints(query'.meta) = 0)
           /\ query'.dates = query'.fetched.dates
           /\ query'.values = query'.fetched.euvalues
    /\ query'.pc = "bounded" =>
           /\ query.pc = "fetched"
           /\ AllPoints(query.meta) = 0
           /\ query'.dates[1] = query.start_time
           /\ query'.dates[Len(query'.dates)] = query.end_time
    /\ query'.pc \in {"constructed", "raised"} =>
           /\ query.pc = (IF AllPoints(query.meta) = 0 THEN "bounded" ELSE "fetched")
           /\ AllPoints(query.meta) # 0 =>
                  /\ query'.pc = "constructed"
                  /\ heap'[1][1].data = query.fetched
    /\ query'.pc = "constructed" =>
           /\ heap[1] = None
           /\ heap'[1][1].data = Table(query.dates, query.values)
           /\ Len(query.dates) > 0 =>
                  heap'[1][1] = full_stats(heap'[1][1])
    /\ query'.pc = "expanded" =>
           /\ query.pc = "constructed"
           /\ AllPoints(query.meta) = 0
           /\ Len(heap[1][1].data.dates) > 0
           /\ heap'[1][1] = change_only_add_points(heap[1][1])
    /\ query'.pc = "returned" =>
           /\ heap' = heap
           /\ IF AllPoints(query.meta) = 0 /\ Len(heap[1][1].data.dates) > 0
              THEN query.pc = "expanded"
              ELSE query.pc = "constructed"
           /\ AllPoints(query.meta) # 0 => heap[1][1].data = query.fetched

(* C28: get_mnemonic asks for bracket values exactly when the metadata say *)
(* the mnemonic is change-only; for a change-only mnemonic it fetches,     *)
(* then reconstructs the bounding points, then constructs the series with  *)
(* its full statistics, then expands it, and expands only a series that    *)
(* holds samples; for an all-points mnemonic it neither reconstructs       *)
(* bounding points nor expands, and the series holds exactly the fetched   *)
(* samples.                                                                *)
C28_QueryStepsInOrder == [][QueryStepInOrder]_vars

C28_Witness ==
    /\ query.pc = "returned"
    /\ query.bracket
    /\ Len(query.fetched.dates) = 1
    /\ Len(query.dates) = 3
    /\ Len(Obj(1).data.dates) = 3
    /\ Obj(1).data.dates # query.dates
    /\ Obj(1).mean # None

(* C30: in Multiply, once mnem is interpolated onto the timestamps of self *)
(* every timestamp of mnem is a timestamp of self; when the timestamps of  *)
(* self are pairwise distinct the intersection keeps every sample of mnem  *)
(* and the ValueError for two operands that both changed length is not     *)
(* raised.                                                                 *)
C30_MulKeepsInterpolatedMnem ==
    (/\ last.op = "mul"
     /\ Len(PreMnem.data.dates) >= 2
     /\ interpolate_error(PreMnem, PreSelf.data.dates) = "") =>
        LET a == PreSelf.data.dates
            b == interpolate(PreMnem, a).data.dates
            common == {a[k] : k \in 1..Len(a)} \cap {b[k] : k \in 1..Len(b)}
        IN  /\ last.mnem # NewSlot => Obj(last.mnem).data.dates = b
            /\ \A k \in 1..Len(b) : \E j \in 1..Len(a) : a[j] = b[k]
            /\ NoDup(a) =>
                   /\ Cardinality(common) = Len(b)
                   /\ last.err # "ValueError"

C30_Witness ==
    /\ Multiplied
    /\ last.self # last.mnem
    /\ Len(PreMnem.data.dates) >= 2
    /\ NoDup(PreSelf.data.dates)
    /\ Len(Obj(last.mnem).data.dates) < Len(PreSelf.data.dates)
    /\ Len(Obj(last.mnem).data.dates) < Len(PreMnem.data.dates)
    /\ Len(Returned.data.dates) = Len(Obj(last.mnem).data.dates)

====
